---------------------------- MODULE Spec2Model ----------------------------
(***************************************************************************)
(* A model of get_claude_usage.py: the pseudo-terminal session driver      *)
(* (get_usage), the transcript parser (parse_usage) and the entry point    *)
(* (main).                                                                 *)
(*                                                                         *)
(* Text is a sequence of characters; a character is a one-character string *)
(* except for the few characters that have no TLA+ string literal, which   *)
(* are named (ESC, BOX).  Bytes read from the pseudo-terminal are modelled *)
(* the same way, with named bytes for the non-ASCII ones.                  *)
(***************************************************************************)
EXTENDS Integers, Sequences, FiniteSets, TLC

----------------------------------------------------------------------------
(* Characters *)

ESC == "ESC"
NL == "\n"
TAB == "\t"
CR == "\r"
\* A character outside ASCII (U+2588, a block glyph of the usage bar).
BOX == "U2588"
\* The grave accent, \x60.
GRAVE == "GRAVE"

Digits == {"0", "1", "2", "3", "4", "5", "6", "7", "8", "9"}

UpperLetters ==
    {"A", "B", "C", "D", "E", "F", "G", "H", "I", "J", "K", "L", "M",
     "N", "O", "P", "Q", "R", "S", "T", "U", "V", "W", "X", "Y", "Z"}

LowerLetters ==
    {"a", "b", "c", "d", "e", "f", "g", "h", "i", "j", "k", "l", "m",
     "n", "o", "p", "q", "r", "s", "t", "u", "v", "w", "x", "y", "z"}

Letters == UpperLetters \cup LowerLetters

Punctuation ==
    {" ", "!", "\"", "#", "$", "%", "&", "'", "(", ")", "*", "+", ",", "-",
     ".", "/", ":", ";", "<", "=", ">", "?", "@", "[", "\\", "]", "^", "_",
     GRAVE, "{", "|", "}", "~"}

\* The range \x20-\x7E.
Printable == Digits \cup Letters \cup Punctuation

\* What \s matches.
Whitespace == {" ", TAB, NL, CR}

DigitValue ==
    ("0" :> 0) @@ ("1" :> 1) @@ ("2" :> 2) @@ ("3" :> 3) @@ ("4" :> 4) @@
    ("5" :> 5) @@ ("6" :> 6) @@ ("7" :> 7) @@ ("8" :> 8) @@ ("9" :> 9)

LowerOf ==
    ("A" :> "a") @@ ("B" :> "b") @@ ("C" :> "c") @@ ("D" :> "d") @@
    ("E" :> "e") @@ ("F" :> "f") @@ ("G" :> "g") @@ ("H" :> "h") @@
    ("I" :> "i") @@ ("J" :> "j") @@ ("K" :> "k") @@ ("L" :> "l") @@
    ("M" :> "m") @@ ("N" :> "n") @@ ("O" :> "o") @@ ("P" :> "p") @@
    ("Q" :> "q") @@ ("R" :> "r") @@ ("S" :> "s") @@ ("T" :> "t") @@
    ("U" :> "u") @@ ("V" :> "v") @@ ("W" :> "w") @@ ("X" :> "x") @@
    ("Y" :> "y") @@ ("Z" :> "z")

LowerChar(c) == IF c \in UpperLetters THEN LowerOf[c] ELSE c

----------------------------------------------------------------------------
(* str and re primitives used by parse_usage *)

\* str.lower()
Lower(s) == [k \in 1..Len(s) |-> LowerChar(s[k])]

\* The least element of a non-empty set of numbers.
Least(S) == CHOOSE x \in S : \A y \in S : x <= y

\* The index of the last character of the longest run of characters of C
\* that starts at p (p - 1 when the run is empty): a greedy C*.
RunEnd(s, p, C) ==
    CHOOSE q \in (p - 1)..Len(s) :
        /\ (q = Len(s) \/ s[q + 1] \notin C)
        /\ \A k \in p..q : s[k] \in C

\* The index of the last character of the longest run of characters not in
\* C that starts at p: a greedy [^C]*.
RunEndNot(s, p, C) ==
    CHOOSE q \in (p - 1)..Len(s) :
        /\ (q = Len(s) \/ s[q + 1] \in C)
        /\ \A k \in p..q : s[k] \notin C

\* str.strip()
Strip(s) ==
    LET a == RunEnd(s, 1, Whitespace) + 1
        b == CHOOSE q \in 0..Len(s) :
                 /\ \A k \in (q + 1)..Len(s) : s[k] \in Whitespace
                 /\ (q = 0 \/ s[q] \notin Whitespace)
    IN  IF a > Len(s) THEN << >> ELSE SubSeq(s, a, b)

\* Whether w occurs in s at position p, compared case-insensitively
\* (w is lower case).
WordAt(s, p, w) ==
    /\ p + Len(w) - 1 <= Len(s)
    /\ \A k \in 1..Len(w) : LowerChar(s[p + k - 1]) = w[k]

\* w in s
Contains(s, w) == \E p \in 1..(Len(s) - Len(w) + 1) : SubSeq(s, p, p + Len(w) - 1) = w

\* int() of a string of decimal digits
RECURSIVE ToInt(_)
ToInt(ds) ==
    IF ds = << >> THEN 0
    ELSE 10 * ToInt(SubSeq(ds, 1, Len(ds) - 1)) + DigitValue[ds[Len(ds)]]

\* str.split on the newline character
RECURSIVE SplitFrom(_, _)
SplitFrom(s, p) ==
    LET q == RunEndNot(s, p, {NL})
    IN  IF q >= Len(s) THEN << SubSeq(s, p, q) >>
        ELSE << SubSeq(s, p, q) >> \o SplitFrom(s, q + 2)

SplitLines(s) == SplitFrom(s, 1)

\* A search that found nothing (re.search returning None); every group the
\* code reads is non-empty when the search succeeds.
NoMatch == << >>

----------------------------------------------------------------------------
(* parse_usage: normalisation *)

\* The text t without the characters at the indices in del.
Without(t, del) ==
    LET marked == [k \in 1..Len(t) |-> << t[k], k \notin del >>]
        kept == SelectSeq(marked, LAMBDA e : e[2])
    IN  [k \in 1..Len(kept) |-> kept[k][1]]

CsiParams == Digits \cup {";", "?"}

\* The index of the last character of the match of \x1b\[[0-9;?]*[a-zA-Z]
\* at p, or 0 when the pattern does not match there.
CsiEndAt(t, p) ==
    IF p + 1 <= Len(t) /\ t[p] = ESC /\ t[p + 1] = "["
    THEN LET q == RunEnd(t, p + 2, CsiParams)
         IN  IF q + 1 <= Len(t) /\ t[q + 1] \in Letters THEN q + 1 ELSE 0
    ELSE 0

\* re.sub(r'\x1b\[[0-9;?]*[a-zA-Z]', '', text).  A match holds one ESC, its
\* first character, so no two matches overlap and the left-to-right scan
\* removes every one of them.
StripCsi(t) ==
    LET starts == {p \in 1..Len(t) : CsiEndAt(t, p) # 0}
    IN  Without(t, UNION {p..CsiEndAt(t, p) : p \in starts})

OtherIntroducers == {"<", ">", "=", "]"}

\* The index of the last character of the match of \x1b[<>=\]][^\x1b]* at
\* p, or 0 when the pattern does not match there: the match runs to the
\* character before the next ESC, or to the end of the text.
OtherEndAt(t, p) ==
    IF p + 1 <= Len(t) /\ t[p] = ESC /\ t[p + 1] \in OtherIntroducers
    THEN LET later == {k \in (p + 2)..Len(t) : t[k] = ESC}
         IN  IF later = {} THEN Len(t)
             ELSE Least(later) - 1
    ELSE 0

\* re.sub(r'\x1b[<>=\]][^\x1b]*', '', clean).  Here too a match holds one
\* ESC, its first character.
StripOther(t) ==
    LET starts == {p \in 1..Len(t) : OtherEndAt(t, p) # 0}
    IN  Without(t, UNION {p..OtherEndAt(t, p) : p \in starts})

\* re.sub(r'[^\x20-\x7E\n]', ' ', clean)
ReplaceNonPrintable(t) ==
    [k \in 1..Len(t) |-> IF t[k] \in Printable \cup {NL} THEN t[k] ELSE " "]

\* Of every run of spaces the first two are kept.
CollapseSpaces_KeepTwo(t) ==
    Without(t, {k \in 3..Len(t) : t[k] = " " /\ t[k - 1] = " " /\ t[k - 2] = " "})

\* re.sub(r' +', ' ', clean): of every run of spaces the first is kept.
CollapseSpaces(t) ==
    Without(t, {k \in 2..Len(t) : t[k] = " " /\ t[k - 1] = " "})

\* The four substitutions of lines 182-185, in order.
Clean(t) == CollapseSpaces(ReplaceNonPrintable(StripOther(StripCsi(t))))

\* The length of the slice kept in "raw".
RawTail == 1000

\* The slice left out: the whole text.
LastChars_Whole(t, n) == t

\* clean[-1000:]
LastChars(t, n) == IF Len(t) <= n THEN t ELSE SubSeq(t, Len(t) - n + 1, Len(t))

----------------------------------------------------------------------------
(* parse_usage: the three searches *)

\* The index of the last digit of group 1 of (\d+)\s*% matched at p, or 0
\* when the pattern does not match at p.
PercentDigitsEndAt(s, p) ==
    IF s[p] \notin Digits THEN 0
    ELSE LET q == RunEnd(s, p, Digits)
             r == RunEnd(s, q + 1, Whitespace)
         IN  IF r + 1 <= Len(s) /\ s[r + 1] = "%" THEN q ELSE 0

\* re.search(r'(\d+)\s*%', s).group(1): the leftmost match.  A match that
\* starts inside a run of digits implies one at the start of the run, so
\* the leftmost match starts a run.
SearchPercent(s) ==
    LET runs == {p \in 1..Len(s) :
                    s[p] \in Digits /\ (p = 1 \/ s[p - 1] \notin Digits)}
        starts == {p \in runs : PercentDigitsEndAt(s, p) # 0}
    IN  IF starts = {} THEN NoMatch
        ELSE SubSeq(s, Least(starts), PercentDigitsEndAt(s, Least(starts)))

KwReset == <<"r", "e", "s", "e", "t">>

\* The positions right after a match of resets? at p, in the order the
\* regex engine tries them: the optional s taken first, then left out.
ResetTokenEnds(s, p) ==
    IF ~WordAt(s, p, KwReset) THEN << >>
    ELSE IF p + 5 <= Len(s) /\ LowerChar(s[p + 5]) = "s" THEN << p + 6, p + 5 >>
    ELSE << p + 5 >>

ParenOrNewline == {")", NL}

\* <<first, last>> of group 1 of \s*(\d+[:\d]*\s*[ap]m[^)\n]*) matched at
\* q, or << >>.
ClockRestAt(s, q) ==
    LET a == RunEnd(s, q, Whitespace) + 1
    IN  IF a > Len(s) \/ s[a] \notin Digits THEN << >>
        ELSE LET b == RunEnd(s, a, Digits \cup {":"})
                 c == RunEnd(s, b + 1, Whitespace)
             IN  IF /\ c + 2 <= Len(s)
                    /\ LowerChar(s[c + 1]) \in {"a", "p"}
                    /\ LowerChar(s[c + 2]) = "m"
                 THEN << a, RunEndNot(s, c + 3, ParenOrNewline) >>
                 ELSE << >>

\* The first alternative of resets? that lets the rest of the pattern match.
ClockMatchAt(s, p) ==
    LET ends == ResetTokenEnds(s, p)
        ok == {k \in 1..Len(ends) : ClockRestAt(s, ends[k]) # << >>}
    IN  IF ok = {} THEN << >>
        ELSE ClockRestAt(s, ends[Least(ok)])

\* re.search(r'resets?\s*(\d+[:\d]*\s*[ap]m[^)\n]*)', s, re.IGNORECASE)
\* .group(1): the leftmost match.
SearchClock(s) ==
    LET starts == {p \in 1..Len(s) : ClockMatchAt(s, p) # << >>}
    IN  IF starts = {} THEN NoMatch
        ELSE LET g == ClockMatchAt(s, Least(starts)) IN SubSeq(s, g[1], g[2])

Months ==
    { <<"j", "a", "n">>, <<"f", "e", "b">>, <<"m", "a", "r">>, <<"a", "p", "r">>,
      <<"m", "a", "y">>, <<"j", "u", "n">>, <<"j", "u", "l">>, <<"a", "u", "g">>,
      <<"s", "e", "p">>, <<"o", "c", "t">>, <<"n", "o", "v">>, <<"d", "e", "c">> }

\* The index of the last character of \s*(jan|...|dec)[^)\n]+ matched at q,
\* or 0.
DateRestAt(s, q) ==
    LET a == RunEnd(s, q, Whitespace) + 1
    IN  IF a + 2 <= Len(s) /\ Lower(SubSeq(s, a, a + 2)) \in Months
        THEN LET d == RunEndNot(s, a + 3, ParenOrNewline)
             IN  IF d >= a + 3 THEN d ELSE 0
        ELSE 0

DateMatchEndAt(s, p) ==
    LET ends == ResetTokenEnds(s, p)
        ok == {k \in 1..Len(ends) : DateRestAt(s, ends[k]) # 0}
    IN  IF ok = {} THEN 0
        ELSE DateRestAt(s, ends[Least(ok)])

\* re.search(r'resets?\s*(jan|...|dec)[^)\n]+', s, re.IGNORECASE).group(0):
\* the leftmost match.
SearchDate(s) ==
    LET starts == {p \in 1..Len(s) : DateMatchEndAt(s, p) # 0}
    IN  IF starts = {} THEN NoMatch
        ELSE SubSeq(s, Least(starts), DateMatchEndAt(s, Least(starts)))

\* re.sub(r'^resets?\s*', '', reset_text, flags=re.IGNORECASE)
StripResetToken(g) ==
    LET ends == ResetTokenEnds(g, 1)
    IN  IF ends = << >> THEN g
        ELSE SubSeq(g, RunEnd(g, ends[1], Whitespace) + 1, Len(g))

----------------------------------------------------------------------------
(* parse_usage: field extraction *)

KwCurrentSession ==
    <<"c", "u", "r", "r", "e", "n", "t", " ", "s", "e", "s", "s", "i", "o",
      "n">>

KwCurrentWeek ==
    <<"c", "u", "r", "r", "e", "n", "t", " ", "w", "e", "e", "k">>

KwAllModels ==
    <<"a", "l", "l", " ", "m", "o", "d", "e", "l", "s">>

KwSonnetOnly ==
    <<"s", "o", "n", "n", "e", "t", " ", "o", "n", "l", "y">>

\* The record parse_usage starts from.
DefaultResult ==
    [session_percent |-> 0, session_reset |-> << >>,
     weekly_percent |-> 0, weekly_reset |-> << >>,
     sonnet_percent |-> 0, raw |-> << >>]

\* How many lines, the header line included, each search looks at.
PercentWindow == 3
SessionResetWindow == 3
WeeklyResetWindow == 5

\* A window one line short.
WindowEnd_OneLess(ls, i, w) == IF i + w - 2 <= Len(ls) THEN i + w - 2 ELSE Len(ls)

\* min(i + w, len(lines)) - 1, as the index of the last line of the window
\* when lines are counted from 1.
WindowEnd(ls, i, w) == IF i + w - 1 <= Len(ls) THEN i + w - 1 ELSE Len(ls)

\* for j in range(...): match = re.search(percent, lines[j]); if match: break
RECURSIVE ScanPercent(_, _, _)
ScanPercent(ls, j, stop) ==
    IF j > stop THEN NoMatch
    ELSE LET m == SearchPercent(ls[j])
         IN  IF m # NoMatch THEN m ELSE ScanPercent(ls, j + 1, stop)

RECURSIVE ScanClock(_, _, _)
ScanClock(ls, j, stop) ==
    IF j > stop THEN NoMatch
    ELSE LET m == SearchClock(ls[j])
         IN  IF m # NoMatch THEN m ELSE ScanClock(ls, j + 1, stop)

RECURSIVE ScanDate(_, _, _)
ScanDate(ls, j, stop) ==
    IF j > stop THEN NoMatch
    ELSE LET m == SearchDate(ls[j])
         IN  IF m # NoMatch THEN m ELSE ScanDate(ls, j + 1, stop)

\* sys.get_int_max_str_digits(): the longest digit string int() converts
\* on CPython 3.11 and later.
IntMaxStrDigits == 4300

\* Whether int(m) raises ValueError; leading zeros count.
IntRaises(m) == Len(m) > IntMaxStrDigits

\* The value stored for a percent match.
PercentValue(m) == ToInt(m)

\* The value stored for a session reset match.
SessionResetValue(m) == Strip(m)

\* The value stored for a weekly reset match.
WeeklyResetValue(m) == Strip(StripResetToken(m))

\* A header with no match in its window puts the default back.
SessionSection_Reset(ls, i, res) ==
    LET pm == ScanPercent(ls, i, WindowEnd(ls, i, PercentWindow))
        rm == ScanClock(ls, i, WindowEnd(ls, i, SessionResetWindow))
    IN  [res EXCEPT
           !.session_percent = IF pm # NoMatch THEN PercentValue(pm) ELSE 0,
           !.session_reset = IF rm # NoMatch THEN SessionResetValue(rm) ELSE << >>]

SessionSection(ls, i, res) ==
    LET pm == ScanPercent(ls, i, WindowEnd(ls, i, PercentWindow))
        rm == ScanClock(ls, i, WindowEnd(ls, i, SessionResetWindow))
    IN  [res EXCEPT
           !.session_percent = IF pm # NoMatch THEN PercentValue(pm) ELSE @,
           !.session_reset = IF rm # NoMatch THEN SessionResetValue(rm) ELSE @]

WeeklySection(ls, i, res) ==
    LET pm == ScanPercent(ls, i, WindowEnd(ls, i, PercentWindow))
        rm == ScanDate(ls, i, WindowEnd(ls, i, WeeklyResetWindow))
    IN  [res EXCEPT
           !.weekly_percent = IF pm # NoMatch THEN PercentValue(pm) ELSE @,
           !.weekly_reset = IF rm # NoMatch THEN WeeklyResetValue(rm) ELSE @]

SonnetSection(ls, i, res) ==
    LET pm == ScanPercent(ls, i, WindowEnd(ls, i, PercentWindow))
    IN  [res EXCEPT
           !.sonnet_percent = IF pm # NoMatch THEN PercentValue(pm) ELSE @]

IsSessionHeader(line) == Contains(line, KwCurrentSession)
\* The weekly header test without its second phrase.
IsWeeklyHeader_AnyWeek(line) == Contains(line, KwCurrentWeek)
IsWeeklyHeader(line) == Contains(line, KwCurrentWeek) /\ Contains(line, KwAllModels)
IsSonnetHeader(line) == Contains(line, KwSonnetOnly)

\* Whether the iteration for line i raises: whether one of the int() calls
\* of the sections entered for it does.
LoopBodyRaises(ls, i) ==
    LET line == Lower(Strip(ls[i]))
    IN  /\ \/ IsSessionHeader(line)
           \/ IsWeeklyHeader(line)
           \/ IsSonnetHeader(line)
        /\ IntRaises(ScanPercent(ls, i, WindowEnd(ls, i, PercentWindow)))

ValueError ==
    [type |-> "ValueError",
     message |-> "Exceeds the limit (4300 digits) for integer string conversion"]

\* One iteration of the while loop of lines 193-244, for line i.
LoopBody(ls, i, res) ==
    LET line == Lower(Strip(ls[i]))
        r1 == IF IsSessionHeader(line) THEN SessionSection(ls, i, res) ELSE res
        r2 == IF IsWeeklyHeader(line) THEN WeeklySection(ls, i, r1) ELSE r1
    IN  IF IsSonnetHeader(line) THEN SonnetSection(ls, i, r2) ELSE r2

----------------------------------------------------------------------------
(* get_usage: bytes and their decoding *)

\* Bytes outside ASCII: the three bytes of U+2588 in UTF-8, and a byte that
\* occurs in no UTF-8 text.
XE2 == "xE2"
X96 == "x96"
X88 == "x88"
XFF == "xFF"

Continuation == {X96, X88}

Ascii == Printable \cup {ESC, NL, TAB, CR}

\* The character a three-byte sequence XE2, c1, c2 encodes.
Glyph(c1, c2) ==
    IF c1 = X96 /\ c2 = X88 THEN BOX
    ELSE IF c1 = X96 /\ c2 = X96 THEN "U2596"
    ELSE IF c1 = X88 /\ c2 = X88 THEN "U2208"
    ELSE "U2216"

\* Whether a complete three-byte sequence starts at k.
LeadAt(b, k) ==
    /\ b[k] = XE2
    /\ k + 2 <= Len(b)
    /\ b[k + 1] \in Continuation
    /\ b[k + 2] \in Continuation

\* output.decode('utf-8', errors='ignore'): an ASCII byte is its character,
\* a complete sequence is one character, and every other byte is dropped (a
\* lead byte is no continuation byte, so a sequence is found where it
\* starts).
Decode(b) ==
    LET chars == [k \in 1..Len(b) |->
                    IF LeadAt(b, k) THEN Glyph(b[k + 1], b[k + 2]) ELSE b[k]]
        dropped == {k \in 1..Len(b) : b[k] \notin Ascii /\ ~LeadAt(b, k)}
    IN  Without(chars, dropped)

----------------------------------------------------------------------------
(* The program state *)

VARIABLES
    pc,           \* where main is: a step of get_usage, of parse_usage, of main
    claude_path,  \* what find_claude_cli returned
    master,       \* the controller descriptor: "none", "open", "closed"
    slave,        \* the follower descriptor in the parent
    proc,         \* the child: "none", "running", "exited", "reaped"
    term_sent,    \* whether SIGTERM was sent to the child
    kill_sent,    \* whether SIGKILL was sent to the child
    pending,      \* chunks the child wrote that no read has returned yet
    produced,     \* how many chunks the child wrote
    output,       \* the bytes accumulated by get_usage
    written,      \* the byte strings written to the controller descriptor
    elapsed,      \* time.time() - start, in the current polling wait
    exc,          \* the exception that left get_usage
    text,         \* the argument of parse_usage
    clean,        \* parse_usage: the cleaned text
    lines,        \* parse_usage: the lines of the cleaned text
    i,            \* parse_usage: the loop index, counted from 1
    result,       \* parse_usage: the record
    stdout,       \* the JSON objects printed
    exit_status   \* << >> while running, then << status >>

vars ==
    << pc, claude_path, master, slave, proc, term_sent, kill_sent, pending,
       produced, output, written, elapsed, exc, text, clean, lines, i,
       result, stdout, exit_status >>

driverVars ==
    << claude_path, master, slave, proc, term_sent, kill_sent, pending,
       produced, output, written, elapsed, exc >>

parseVars == << clean, lines, i, result >>

mainVars == << stdout, exit_status >>

\* A variable no assignment has reached.
NoValue == [unset |-> TRUE]

NoException == [type |-> "none", message |-> ""]

----------------------------------------------------------------------------
(* Bounds and inputs *)

\* The most chunks the child writes in one run.
MaxChunks == 2

\* The most lines, blank lines apart, of a text given to parse_usage, and
\* the most blank lines put after its first line.
MaxLines == 3
MaxGap == 4

\* The most characters of a text made of escape-sequence characters only.
MaxEsc == 3

LnSession ==
    <<"C", "u", "r", "r", "e", "n", "t", " ", "s", "e", "s", "s", "i", "o",
      "n">>

LnWeekly ==
    <<"C", "u", "r", "r", "e", "n", "t", " ", "w", "e", "e", "k", " ", "(",
      "a", "l", "l", " ", "m", "o", "d", "e", "l", "s", ")">>

LnWeekOpus ==
    <<"C", "u", "r", "r", "e", "n", "t", " ", "w", "e", "e", "k", " ", "(",
      "O", "p", "u", "s", ")">>

LnSonnet ==
    <<"S", "o", "n", "n", "e", "t", " ", "o", "n", "l", "y">>

LnPct45 ==
    <<" ", " ", "4", "5", "%">>

LnPct12 ==
    <<" ", " ", "1", "2", "%">>

LnPct7 ==
    <<" ", " ", "7", "%">>

LnPct150 ==
    <<"1", "5", "0", "%", " ", "u", "s", "e", "d">>

LnResetClock ==
    <<" ", " ", "R", "e", "s", "e", "t", "s", " ", "3", ":", "0", "0", "p",
      "m", " ", "(", "A", "m", "e", "r", "i", "c", "a", "/", "N", "Y", ")">>

LnResetDate ==
    <<" ", " ", "R", "e", "s", "e", "t", "s", " ", "J", "a", "n", " ", "5",
      ",", " ", "2", "0", "2", "5">>

\* A line of a usage bar: control sequences, block glyphs, a percentage.
LnBar ==
    <<ESC, "[", "2", "K", BOX, BOX, " ", " ", ESC, "[", "1", "m", "9", " ",
      "%", ESC, "[", "0", "m">>

PalSession == {LnSession, LnPct45, LnResetClock, LnBar}
PalWeekly == {LnWeekly, LnPct12, LnResetDate, LnWeekOpus}
PalSonnet == {LnSonnet, LnPct7, LnPct150, LnSession}

Palettes == {PalSession, PalWeekly, PalSonnet}

\* '\n'.join(ls)
RECURSIVE Join(_)
Join(ls) ==
    IF Len(ls) = 0 THEN << >>
    ELSE IF Len(ls) = 1 THEN ls[1]
    ELSE ls[1] \o << NL >> \o Join(Tail(ls))

\* ls with g blank lines after its first line.
WithGap(ls, g) == << ls[1] >> \o [k \in 1..g |-> << >>] \o Tail(ls)

LineSeqs == UNION {[1..n -> pal] : n \in 1..MaxLines, pal \in Palettes}

\* A screen with the three sections, as the usage dialog draws it.
FullScreen ==
    <<ESC, "[", "2", "J", ESC, "[", "1", "m", "C", "u", "r", "r", "e", "n",
      "t", " ", "s", "e", "s", "s", "i", "o", "n", ESC, "[", "0", "m", NL,
      BOX, BOX, " ", " ", "4", "5", "%", " ", "u", "s", "e", "d", NL, "R",
      "e", "s", "e", "t", "s", " ", "3", ":", "0", "0", "p", "m", " ", "(",
      "A", "m", "e", "r", "i", "c", "a", "/", "N", "Y", ")", NL, NL, "C",
      "u", "r", "r", "e", "n", "t", " ", "w", "e", "e", "k", " ", "(", "a",
      "l", "l", " ", "m", "o", "d", "e", "l", "s", ")", NL, BOX, " ", "1",
      "2", "%", " ", "u", "s", "e", "d", NL, "R", "e", "s", "e", "t", "s",
      " ", "J", "a", "n", " ", "5", ",", " ", "2", "0", "2", "5", NL, NL,
      "S", "o", "n", "n", "e", "t", " ", "o", "n", "l", "y", NL, " ", "7",
      "%", " ", "u", "s", "e", "d", NL>>

\* A session section whose percentage has one digit more than int() takes.
LongPercent ==
    LnSession \o << NL >> \o [k \in 1..(IntMaxStrDigits + 1) |-> "9"] \o << "%" >>

\* A screen longer than the slice kept in raw: rules of dashes, then the
\* three sections.
LongScreen ==
    [k \in 1..(RawTail + 100) |-> IF k % 50 = 0 THEN NL ELSE "-"] \o FullScreen

\* A control sequence inside the start of another, a title sequence, a
\* keypad sequence and a tab.
NestedEscapes ==
    <<ESC, "[", ESC, "[", "0", "m", "m", " ", TAB, " ", ESC, "]", "0", ";",
      "t", ESC, "=", "x">>

\* A screen drawn three times: the session section in full, then with
\* another percentage and no reset line, then the header alone.
Redrawn ==
    Join(<< LnSession, LnPct45, LnResetClock, LnSession, LnBar, LnSession >>)

\* Every text of at most MaxEsc of the characters escape sequences are
\* made of.
EscAlphabet == {ESC, "[", "]", "0", "m", " "}

EscTexts == UNION {[1..n -> EscAlphabet] : n \in 1..MaxEsc}

\* The texts parse_usage is run on.
Texts ==
    {<< >>, FullScreen, LongPercent, LongScreen, NestedEscapes, Redrawn}
        \cup EscTexts
        \cup {Join(WithGap(ls, g)) : ls \in LineSeqs, g \in 0..MaxGap}

\* What the child may write to its terminal in one write.
ChunkHead ==
    <<"C", "u", "r", "r", "e", "n", "t", " ", "s", "e", "s", "s", "i", "o",
      "n", NL, " ", "4">>

ChunkMiddle ==
    <<"5", "%", NL, XE2, X96>>

ChunkEnd ==
    <<X88, XFF, ESC, "[", "0", "m", "S", "o", "n", "n", "e", "t", " ", "o",
      "n", "l", "y", " ", "7", "%">>

Chunks == {ChunkHead, ChunkMiddle, ChunkEnd}

----------------------------------------------------------------------------
(* get_usage *)

WriteUsage ==
    << "/", "u", "s", "a", "g", "e", CR >>
WriteEnter ==
    << CR >>
WriteEscape ==
    << ESC >>
WriteExit ==
    << "/", "e", "x", "i", "t", CR >>

\* The two polling waits and the time each may take.
StartupDeadline == 5
LoadDeadline == 8

WaitSites == {"startup_wait", "load_wait"}
Deadline(site) == IF site = "startup_wait" THEN StartupDeadline ELSE LoadDeadline
AfterWait(site) == IF site = "startup_wait" THEN "write_usage" ELSE "write_escape"

\* The deadline compared with <= for <.
Polling_OneMore(site, e) == e <= Deadline(site)

\* while time.time() - start < deadline
Polling(site, e) == e < Deadline(site)

WriteSites == {"write_usage", "write_enter", "write_escape", "write_exit"}

\* The confirming Enter and the Escape exchanged.
WriteBytes_Swapped(site) ==
    CASE site = "write_usage" -> WriteUsage
      [] site = "write_enter" -> WriteEscape
      [] site = "write_escape" -> WriteEnter
      [] site = "write_exit" -> WriteExit

WriteBytes(site) ==
    CASE site = "write_usage" -> WriteUsage
      [] site = "write_enter" -> WriteEnter
      [] site = "write_escape" -> WriteEscape
      [] site = "write_exit" -> WriteExit

AfterWrite(site) ==
    CASE site = "write_usage" -> "sleep_1"
      [] site = "write_enter" -> "load_wait"
      [] site = "write_escape" -> "sleep_2"
      [] site = "write_exit" -> "sleep_3"

SleepSites == {"sleep_1", "sleep_2", "sleep_3"}

AfterSleep(site) ==
    CASE site = "sleep_1" -> "write_enter"
      [] site = "sleep_2" -> "write_exit"
      [] site = "sleep_3" -> "terminate"

NotFoundError ==
    [type |-> "FileNotFoundError",
     message |-> "Claude CLI not found. Please install it from https://claude.ai/code"]

\* An exception leaves get_usage: nothing after the raising statement runs.
Raise(e) ==
    /\ exc' = e
    /\ pc' = "except"

\* claude_path = find_claude_cli()
FindCli ==
    /\ pc = "find"
    /\ claude_path' \in {"None", "/usr/local/bin/claude"}
    /\ pc' = "check_path"
    /\ UNCHANGED << master, slave, proc, term_sent, kill_sent, pending, produced,
                    output, written, elapsed, exc, text, parseVars, mainVars >>

\* if not claude_path: raise FileNotFoundError(...)
RaiseNotFound ==
    /\ pc = "check_path"
    /\ claude_path = "None"
    /\ Raise(NotFoundError)
    /\ UNCHANGED << claude_path, master, slave, proc, term_sent, kill_sent, pending,
                    produced, output, written, elapsed, text, parseVars, mainVars >>

\* The check of claude_path left out.
PathFound_Unchecked ==
    /\ pc = "check_path"
    /\ pc' = "openpty"
    /\ UNCHANGED << driverVars, text, parseVars, mainVars >>

PathFound ==
    /\ pc = "check_path"
    /\ claude_path # "None"
    /\ pc' = "openpty"
    /\ UNCHANGED << driverVars, text, parseVars, mainVars >>

\* master, slave = pty.openpty()
OpenPty ==
    /\ pc = "openpty"
    /\ master' = "open"
    /\ slave' = "open"
    /\ pc' = "spawn"
    /\ UNCHANGED << claude_path, proc, term_sent, kill_sent, pending, produced,
                    output, written, elapsed, exc, text, parseVars, mainVars >>

\* pty.openpty() raises: no pseudo-terminal is left.
OpenPtyFails ==
    /\ pc = "openpty"
    /\ Raise([type |-> "OSError", message |-> "out of pty devices"])
    /\ UNCHANGED << claude_path, master, slave, proc, term_sent, kill_sent, pending,
                    produced, output, written, elapsed, text, parseVars, mainVars >>

\* proc = subprocess.Popen([claude_path], stdin=slave, stdout=slave, ...)
Spawn ==
    /\ pc = "spawn"
    /\ proc' = "running"
    /\ pc' = "close_slave"
    /\ UNCHANGED << claude_path, master, slave, term_sent, kill_sent, pending,
                    produced, output, written, elapsed, exc, text, parseVars,
                    mainVars >>

\* subprocess.Popen raises (the file went away, or may not be executed).
SpawnFails ==
    /\ pc = "spawn"
    /\ \E e \in {[type |-> "FileNotFoundError", message |-> "No such file or directory"],
                 [type |-> "PermissionError", message |-> "Permission denied"]} :
           Raise(e)
    /\ UNCHANGED << claude_path, master, slave, proc, term_sent, kill_sent, pending,
                    produced, output, written, elapsed, text, parseVars, mainVars >>

\* The follower descriptor left open in the parent.
CloseSlave_Skipped ==
    /\ pc = "close_slave"
    /\ output' = << >>
    /\ elapsed' = 0
    /\ pc' = "startup_wait"
    /\ UNCHANGED << claude_path, master, slave, proc, term_sent, kill_sent,
                    pending, produced, written, exc, text, parseVars, mainVars >>

\* os.close(slave); output = b""; start = time.time()
CloseSlave ==
    /\ pc = "close_slave"
    /\ slave' = "closed"
    /\ output' = << >>
    /\ elapsed' = 0
    /\ pc' = "startup_wait"
    /\ UNCHANGED << claude_path, master, proc, term_sent, kill_sent, pending,
                    produced, written, exc, text, parseVars, mainVars >>

\* Time passes in a polling wait (select returns after its 0.1 s with nothing
\* to read, or a loop iteration takes its time).
Tick ==
    /\ pc \in WaitSites
    /\ Polling(pc, elapsed)
    /\ elapsed' = elapsed + 1
    /\ UNCHANGED << pc, claude_path, master, slave, proc, term_sent, kill_sent,
                    pending, produced, output, written, exc, text, parseVars,
                    mainVars >>

\* The chunk read put before what was read earlier.
PollRead_Prepend ==
    /\ pc \in WaitSites
    /\ Polling(pc, elapsed)
    /\ pending # << >>
    /\ output' = Head(pending) \o output
    /\ pending' = Tail(pending)
    /\ UNCHANGED << pc, claude_path, master, slave, proc, term_sent, kill_sent,
                    produced, written, elapsed, exc, text, parseVars, mainVars >>

\* select reports the descriptor ready; data = os.read(master, 4096);
\* output += data
PollRead ==
    /\ pc \in WaitSites
    /\ Polling(pc, elapsed)
    /\ pending # << >>
    /\ output' = output \o Head(pending)
    /\ pending' = Tail(pending)
    /\ UNCHANGED << pc, claude_path, master, slave, proc, term_sent, kill_sent,
                    produced, written, elapsed, exc, text, parseVars, mainVars >>

\* select reports the descriptor ready and os.read raises OSError (the child
\* is gone and nothing is left to read): break
PollReadError ==
    /\ pc \in WaitSites
    /\ Polling(pc, elapsed)
    /\ pending = << >>
    /\ proc # "running"
    /\ pc' = AfterWait(pc)
    /\ UNCHANGED << driverVars, text, parseVars, mainVars >>

\* The while condition is false: the wait is over.
WaitExpire ==
    /\ pc \in WaitSites
    /\ ~Polling(pc, elapsed)
    /\ pc' = AfterWait(pc)
    /\ UNCHANGED << driverVars, text, parseVars, mainVars >>

\* os.write(master, ...); after the second write, start = time.time()
Write ==
    /\ pc \in WriteSites
    /\ written' = Append(written, WriteBytes(pc))
    /\ elapsed' = IF pc = "write_enter" THEN 0 ELSE elapsed
    /\ pc' = AfterWrite(pc)
    /\ UNCHANGED << claude_path, master, slave, proc, term_sent, kill_sent, pending,
                    produced, output, exc, text, parseVars, mainVars >>

\* os.write raises OSError: the child is gone and the terminal hung up.
WriteFails ==
    /\ pc \in WriteSites
    /\ proc # "running"
    /\ Raise([type |-> "OSError", message |-> "Input/output error"])
    /\ UNCHANGED << claude_path, master, slave, proc, term_sent, kill_sent, pending,
                    produced, output, written, elapsed, text, parseVars, mainVars >>

\* time.sleep(...)
Sleep ==
    /\ pc \in SleepSites
    /\ pc' = AfterSleep(pc)
    /\ UNCHANGED << driverVars, text, parseVars, mainVars >>

\* proc.terminate(): SIGTERM to a running child; a child that has exited is
\* reaped by the poll terminate starts with, and gets no signal.
Terminate ==
    /\ pc = "terminate"
    /\ IF proc = "running"
       THEN term_sent' = TRUE /\ proc' = proc
       ELSE term_sent' = term_sent /\ proc' = "reaped"
    /\ pc' = "wait"
    /\ UNCHANGED << claude_path, master, slave, kill_sent, pending, produced,
                    output, written, elapsed, exc, text, parseVars, mainVars >>

\* proc.terminate() raises ProcessLookupError (a Python whose terminate
\* signals without polling, and a child that is gone): the except branch.
TerminateLookupError ==
    /\ pc = "terminate"
    /\ proc # "running"
    /\ pc' = "kill"
    /\ UNCHANGED << driverVars, text, parseVars, mainVars >>

\* proc.wait(timeout=2) returns: the child has exited.
WaitReaped ==
    /\ pc = "wait"
    /\ proc # "running"
    /\ proc' = "reaped"
    /\ pc' = "close_master"
    /\ UNCHANGED << claude_path, master, slave, term_sent, kill_sent, pending,
                    produced, output, written, elapsed, exc, text, parseVars,
                    mainVars >>

\* proc.wait(timeout=2) raises TimeoutExpired: the child is still running.
WaitTimeout ==
    /\ pc = "wait"
    /\ proc = "running"
    /\ pc' = "kill"
    /\ UNCHANGED << driverVars, text, parseVars, mainVars >>

\* proc.kill(): SIGKILL to a running child; nothing waits for it to die.
Kill ==
    /\ pc = "kill"
    /\ IF proc = "running"
       THEN kill_sent' = TRUE /\ proc' = proc
       ELSE kill_sent' = kill_sent /\ proc' = "reaped"
    /\ pc' = "close_master"
    /\ UNCHANGED << claude_path, master, slave, term_sent, pending, produced,
                    output, written, elapsed, exc, text, parseVars, mainVars >>

\* proc.kill() raises ProcessLookupError: pass
KillLookupError ==
    /\ pc = "kill"
    /\ proc # "running"
    /\ pc' = "close_master"
    /\ UNCHANGED << driverVars, text, parseVars, mainVars >>

\* os.close(master)
CloseMaster ==
    /\ pc = "close_master"
    /\ master' = "closed"
    /\ pc' = "return"
    /\ UNCHANGED << claude_path, slave, proc, term_sent, kill_sent, pending,
                    produced, output, written, elapsed, exc, text, parseVars,
                    mainVars >>

\* return output.decode('utf-8', errors='ignore'), and main passes the text
\* to parse_usage.
Return ==
    /\ pc = "return"
    /\ text' = Decode(output)
    /\ pc' = "parse_usage"
    /\ UNCHANGED << driverVars, parseVars, mainVars >>

----------------------------------------------------------------------------
(* The child *)

\* The child writes to its terminal.
ChildWrite ==
    /\ proc = "running"
    /\ master = "open"
    /\ produced < MaxChunks
    /\ \E c \in Chunks : pending' = Append(pending, c)
    /\ produced' = produced + 1
    /\ UNCHANGED << pc, claude_path, master, slave, proc, term_sent, kill_sent,
                    output, written, elapsed, exc, text, parseVars, mainVars >>

\* The child exits: on its own, on SIGTERM, or on SIGKILL.
ChildExit ==
    /\ proc = "running"
    /\ proc' = "exited"
    /\ UNCHANGED << pc, claude_path, master, slave, term_sent, kill_sent, pending,
                    produced, output, written, elapsed, exc, text, parseVars,
                    mainVars >>

----------------------------------------------------------------------------
(* parse_usage *)

\* Lines 172-192: the default record, the four substitutions, raw, the split.
ParseClean ==
    /\ pc = "parse_usage"
    /\ LET c == Clean(text)
       IN  /\ clean' = c
           /\ result' = [DefaultResult EXCEPT !.raw = LastChars(c, RawTail)]
           /\ lines' = SplitLines(c)
    /\ i' = 1
    /\ pc' = "parse_loop"
    /\ UNCHANGED << driverVars, text, mainVars >>

\* One iteration of the while loop; a ValueError of int() leaves parse_usage.
ParseLine ==
    /\ pc = "parse_loop"
    /\ i <= Len(lines)
    /\ IF LoopBodyRaises(lines, i)
       THEN /\ exc' = ValueError
            /\ pc' = "except"
            /\ UNCHANGED << result, i >>
       ELSE /\ result' = LoopBody(lines, i, result)
            /\ i' = i + 1
            /\ UNCHANGED << pc, exc >>
    /\ UNCHANGED << claude_path, master, slave, proc, term_sent, kill_sent,
                    pending, produced, output, written, elapsed, text, clean,
                    lines, mainVars >>

\* return result
ParseReturn ==
    /\ pc = "parse_loop"
    /\ i > Len(lines)
    /\ pc' = "print"
    /\ UNCHANGED << driverVars, text, parseVars, mainVars >>

----------------------------------------------------------------------------
(* main *)

\* The object main prints for an exception.
ErrorObject(e) ==
    IF e.type = "FileNotFoundError"
    THEN [error |-> << "", e.message >>]
    ELSE [error |-> << "Unexpected error: ", e.message >>]

\* print(json.dumps(result)), and the interpreter exits with status 0.
MainPrint ==
    /\ pc = "print"
    /\ stdout' = Append(stdout, result)
    /\ exit_status' = << 0 >>
    /\ pc' = "exit"
    /\ UNCHANGED << driverVars, text, parseVars >>

\* The handler prints the error and falls through to a normal exit.
MainExcept_NoExit ==
    /\ pc = "except"
    /\ stdout' = Append(stdout, ErrorObject(exc))
    /\ exit_status' = << 0 >>
    /\ pc' = "exit"
    /\ UNCHANGED << driverVars, text, parseVars >>

\* except FileNotFoundError / except Exception: print the error, sys.exit(1)
MainExcept ==
    /\ pc = "except"
    /\ stdout' = Append(stdout, ErrorObject(exc))
    /\ exit_status' = << 1 >>
    /\ pc' = "exit"
    /\ UNCHANGED << driverVars, text, parseVars >>

----------------------------------------------------------------------------
(* Specifications *)

\* The program from the start of main.
Init ==
    /\ pc = "find"
    /\ claude_path = "unset"
    /\ master = "none"
    /\ slave = "none"
    /\ proc = "none"
    /\ term_sent = FALSE
    /\ kill_sent = FALSE
    /\ pending = << >>
    /\ produced = 0
    /\ output = << >>
    /\ written = << >>
    /\ elapsed = 0
    /\ exc = NoException
    /\ text = << >>
    /\ clean = << >>
    /\ lines = << >>
    /\ i = 0
    /\ result = NoValue
    /\ stdout = << >>
    /\ exit_status = << >>

GetUsage ==
    \/ FindCli \/ RaiseNotFound \/ PathFound
    \/ OpenPty \/ OpenPtyFails \/ Spawn \/ SpawnFails \/ CloseSlave
    \/ PollRead \/ PollReadError \/ WaitExpire
    \/ Write \/ WriteFails \/ Sleep
    \/ Terminate \/ TerminateLookupError \/ WaitReaped \/ WaitTimeout
    \/ Kill \/ KillLookupError \/ CloseMaster \/ Return

ParseNext == ParseClean \/ ParseLine \/ ParseReturn

Main == MainPrint \/ MainExcept

Child == ChildWrite \/ ChildExit

Next == GetUsage \/ Tick \/ Child \/ ParseNext \/ Main

Spec == Init /\ [][Next]_vars

\* get_usage always takes its next step, and time passes; nothing is assumed
\* of the child.
FairSpec == Spec /\ WF_vars(GetUsage) /\ WF_vars(Tick)

\* parse_usage alone, on each of Texts.
ParseInit ==
    /\ pc = "parse_usage"
    /\ text \in Texts
    /\ claude_path = "unset"
    /\ master = "none"
    /\ slave = "none"
    /\ proc = "none"
    /\ term_sent = FALSE
    /\ kill_sent = FALSE
    /\ pending = << >>
    /\ produced = 0
    /\ output = << >>
    /\ written = << >>
    /\ elapsed = 0
    /\ exc = NoException
    /\ clean = << >>
    /\ lines = << >>
    /\ i = 0
    /\ result = NoValue
    /\ stdout = << >>
    /\ exit_status = << >>

ParseSpec == ParseInit /\ [][ParseNext]_vars

----------------------------------------------------------------------------
(* Claims about get_usage and main *)

\* The steps of get_usage.
GetUsageSites ==
    {"find", "check_path", "openpty", "spawn", "close_slave", "terminate",
     "wait", "kill", "close_master", "return"}
        \cup WaitSites \cup WriteSites \cup SleepSites

\* get_usage has returned or raised.
LeftGetUsage == pc \notin GetUsageSites

UsageKeys ==
    {"session_percent", "session_reset", "weekly_percent", "weekly_reset",
     "sonnet_percent", "raw"}

\* C1: once the pseudo-terminal is allocated, get_usage leaves, by return or
\* by exception, only with both descriptors closed in the parent and with
\* the child, if one was spawned, terminated or asked to terminate.
C1_NoLeakOnExit ==
    (LeftGetUsage /\ master # "none") =>
        /\ master = "closed"
        /\ slave = "closed"
        /\ (proc = "running" => term_sent \/ kill_sent)

\* C2: when the locator returns no path, get_usage raises the not-found
\* error with no pseudo-terminal allocated and no process spawned.
C2_NotFoundBeforeAlloc ==
    (claude_path = "None" /\ pc # "check_path") =>
        /\ pc \in {"except", "exit"}
        /\ exc = NotFoundError
        /\ master = "none"
        /\ slave = "none"
        /\ proc = "none"

\* The locator returned no path and get_usage has raised.
C2_Witness ==
    /\ claude_path = "None"
    /\ pc = "except"
    /\ exc.type = "FileNotFoundError"

C4_OneResult ==
    IF pc = "exit"
    THEN /\ Len(stdout) = 1
         /\ IF exc # NoException
            THEN /\ DOMAIN stdout[1] = {"error"}
                 /\ exit_status = << 1 >>
            ELSE /\ DOMAIN stdout[1] = UsageKeys
                 /\ stdout[1] = result
                 /\ exit_status = << 0 >>
    ELSE /\ stdout = << >>
         /\ exit_status = << >>

\* main has printed a record of zeros and empty texts and exits with 0.
C4_Witness ==
    /\ pc = "exit"
    /\ exit_status = << 0 >>
    /\ stdout[1].session_percent = 0
    /\ stdout[1].weekly_percent = 0
    /\ stdout[1].sonnet_percent = 0
    /\ stdout[1].session_reset = << >>
    /\ stdout[1].weekly_reset = << >>

\* C5: every object main prints has the seven keys session_percent,
\* session_reset, weekly_percent, weekly_reset, sonnet_percent, raw and
\* error.
C5_SevenKeys ==
    \A k \in 1..Len(stdout) : DOMAIN stdout[k] = UsageKeys \cup {"error"}

----------------------------------------------------------------------------
(* Claims about parse_usage *)

\* Whether line k of the cleaned text holds a header phrase, in any case.
HasSession(k) == Contains(Lower(lines[k]), KwCurrentSession)
HasWeek(k) == Contains(Lower(lines[k]), KwCurrentWeek)
HasAllModels(k) == Contains(Lower(lines[k]), KwAllModels)
HasSonnet(k) == Contains(Lower(lines[k]), KwSonnetOnly)

\* Line k and the n - 1 lines after it, as far as the text goes.
Window(k, n) == {j \in k..(k + n - 1) : j <= Len(lines)}

\* The percent match of the earliest line of k, k+1, k+2 that has one.
FirstPercent(k) ==
    LET W == {j \in Window(k, 3) : SearchPercent(lines[j]) # NoMatch}
    IN  IF W = {} THEN NoMatch ELSE SearchPercent(lines[Least(W)])

\* The clock match of the earliest line of k, k+1, k+2 that has one.
FirstClock(k) ==
    LET W == {j \in Window(k, 3) : SearchClock(lines[j]) # NoMatch}
    IN  IF W = {} THEN NoMatch ELSE SearchClock(lines[Least(W)])

\* The date match of the earliest line of k .. k+4 that has one.
FirstDate(k) ==
    LET W == {j \in Window(k, 5) : SearchDate(lines[j]) # NoMatch}
    IN  IF W = {} THEN NoMatch ELSE SearchDate(lines[Least(W)])

\* A match of the date pattern without its leading reset or resets.
AfterResetToken(m) ==
    IF Len(m) >= 6 /\ LowerChar(m[6]) = "s" THEN SubSeq(m, 7, Len(m))
    ELSE SubSeq(m, 6, Len(m))

\* An iteration of the loop that ran to its end.
ParseStep == pc = "parse_loop" /\ pc' = "parse_loop" /\ i' = i + 1

\* C6: parse_usage never raises; it returns the six fields, numbers for the
\* percents and texts for the rest, raw being the tail of the cleaned text;
\* a field that no header line yields a match for, and so every field of a
\* section that has no header line, is at its default, whatever the other
\* fields are.
C6_Total ==
    /\ pc # "except"
    /\ pc = "print" =>
        /\ DOMAIN result = UsageKeys
        /\ \A f \in {"session_percent", "weekly_percent", "sonnet_percent"} :
               result[f] \in Nat
        /\ \A f \in {"session_reset", "weekly_reset", "raw"} :
               DOMAIN result[f] = 1..Len(result[f])
        /\ result.raw = LastChars(Clean(text), RawTail)
        /\ (\A k \in 1..Len(lines) : HasSession(k) => FirstPercent(k) = NoMatch)
               => result.session_percent = 0
        /\ (\A k \in 1..Len(lines) : HasSession(k) => FirstClock(k) = NoMatch)
               => result.session_reset = << >>
        /\ (\A k \in 1..Len(lines) :
                (HasWeek(k) /\ HasAllModels(k)) => FirstPercent(k) = NoMatch)
               => result.weekly_percent = 0
        /\ (\A k \in 1..Len(lines) :
                (HasWeek(k) /\ HasAllModels(k)) => FirstDate(k) = NoMatch)
               => result.weekly_reset = << >>
        /\ (\A k \in 1..Len(lines) : HasSonnet(k) => FirstPercent(k) = NoMatch)
               => result.sonnet_percent = 0

\* The session section of the scenario: header, percent, reset with zone.
C7_Scenario == Join(<< LnSession, LnPct45, LnResetClock >>)

ClockWithZone ==
    <<"3", ":", "0", "0", "p", "m", " ", "(", "A", "m", "e", "r", "i", "c",
      "a", "/", "N", "Y", ")">>

\* C7: for the session section 'Current session', '45%', 'Resets 3:00pm
\* (America/NY)', session_percent is 45 and session_reset holds the clock
\* time with the whole parenthesised zone, closing parenthesis included.
C7_ClockWithZone ==
    (pc = "print" /\ text = C7_Scenario) =>
        /\ result.session_percent = 45
        /\ Contains(result.session_reset, ClockWithZone)

\* The weekly section of the scenario: header, percent, reset date.
C8_Scenario == Join(<< LnWeekly, LnPct12, LnResetDate >>)

Jan5 == <<"J", "a", "n", " ", "5", ",", " ", "2", "0", "2", "5">>

\* C8: an iteration for a line with both 'current week' and 'all models'
\* sets weekly_percent to the first percent match of that line and the next
\* two, and weekly_reset to the first date match of that line and the next
\* four, without its leading reset(s) and trimmed; each is left as it was
\* when there is no match; a line with 'current week' but not 'all models'
\* changes neither; the scenario gives 12 and 'Jan 5, 2025'.
C8_Weekly ==
    /\ [][ParseStep =>
            /\ (HasWeek(i) /\ HasAllModels(i)) =>
                 /\ result'.weekly_percent =
                        IF FirstPercent(i) # NoMatch
                        THEN ToInt(FirstPercent(i))
                        ELSE result.weekly_percent
                 /\ result'.weekly_reset =
                        IF FirstDate(i) # NoMatch
                        THEN Strip(AfterResetToken(FirstDate(i)))
                        ELSE result.weekly_reset
            /\ (HasWeek(i) /\ ~HasAllModels(i)) =>
                 /\ result'.weekly_percent = result.weekly_percent
                 /\ result'.weekly_reset = result.weekly_reset]_vars
    /\ []((pc = "print" /\ text = C8_Scenario) =>
            (result.weekly_percent = 12 /\ result.weekly_reset = Jan5))

\* parse_usage has returned 12 and 'Jan 5, 2025' for the scenario.
C8_Witness ==
    /\ pc = "print"
    /\ text = C8_Scenario
    /\ result.weekly_percent = 12
    /\ result.weekly_reset = Jan5

\* A percent line before the Sonnet header and an over-range one after it.
C9_Scenario == Join(<< LnPct7, LnSonnet, LnPct150 >>)

\* C9: an iteration for a header line i of a section sets the percent of
\* that section to the number of the first percent match of the earliest
\* of the lines i, i+1, i+2 that has one, unclamped, and leaves it as it
\* was when none has; an iteration for any other line leaves it as it was;
\* 'Sonnet only' then '7%' gives 7.
C9_FirstPercentInWindow ==
    /\ [][ParseStep =>
            LET taken(old) == IF FirstPercent(i) # NoMatch
                              THEN ToInt(FirstPercent(i))
                              ELSE old
            IN  /\ result'.session_percent =
                       IF HasSession(i) THEN taken(result.session_percent)
                       ELSE result.session_percent
                /\ result'.weekly_percent =
                       IF HasWeek(i) /\ HasAllModels(i)
                       THEN taken(result.weekly_percent)
                       ELSE result.weekly_percent
                /\ result'.sonnet_percent =
                       IF HasSonnet(i) THEN taken(result.sonnet_percent)
                       ELSE result.sonnet_percent]_vars
    /\ []((pc = "print" /\ text = Join(<< LnSonnet, LnPct7 >>)) =>
            result.sonnet_percent = 7)
    /\ []((pc = "print" /\ text = C9_Scenario) => result.sonnet_percent = 150)

\* parse_usage has returned the percent after the header, not the one
\* before it, and has not clamped it.
C9_Witness ==
    /\ pc = "print"
    /\ text = C9_Scenario
    /\ result.sonnet_percent = 150

\* C10: the three percents of every record parse_usage returns are between
\* 0 and 100.
C10_PercentRange ==
    pc = "print" =>
        \A f \in {"session_percent", "weekly_percent", "sonnet_percent"} :
            result[f] \in 0..100

\* parse_usage has cleaned the text and set raw.
Cleaned == pc \in {"parse_loop", "print"}

\* C11: raw has at most 1000 characters: it is the whole cleaned text when
\* that has at most 1000 characters, and its last 1000 characters otherwise.
C11_RawTail ==
    Cleaned =>
        /\ clean = Clean(text)
        /\ Len(result.raw) <= 1000
        /\ Len(clean) <= 1000 => result.raw = clean
        /\ Len(clean) > 1000 =>
               result.raw = [k \in 1..1000 |-> clean[Len(clean) - 1000 + k]]

\* parse_usage has returned a record for a cleaned text of more than 1000
\* characters, with the last 1000 as raw.
C11_Witness ==
    /\ pc = "print"
    /\ Len(clean) > 1000
    /\ Len(result.raw) = 1000
    /\ result.raw # clean

\* C12: cleaning the cleaned text changes nothing, and neither does any
\* prefix of the four steps; the cleaned text has no escape character, no
\* character other than printable ASCII and newline, and no two spaces in
\* a row.
C12_Idempotent ==
    Cleaned =>
        /\ clean = Clean(text)
        /\ StripCsi(clean) = clean
        /\ StripOther(StripCsi(clean)) = clean
        /\ ReplaceNonPrintable(StripOther(StripCsi(clean))) = clean
        /\ Clean(clean) = clean
        /\ \A k \in 1..Len(clean) : clean[k] \in Printable \cup {NL}
        /\ \A k \in 1..Len(clean) : clean[k] # ESC
        /\ \A k \in 2..Len(clean) : ~(clean[k] = " " /\ clean[k - 1] = " ")

\* parse_usage has cleaned a text on which stripping control sequences
\* twice differs from stripping them once.
C12_Witness ==
    /\ pc = "print"
    /\ text = NestedEscapes
    /\ StripCsi(StripCsi(text)) # StripCsi(text)
    /\ clean = <<" ", "[", "m", " ">>

----------------------------------------------------------------------------
(* Claims about the script, the waits and the teardown of get_usage *)

\* What the script writes: /usage and Enter, Enter, Escape, /exit and Enter.
Script ==
    << <<"/", "u", "s", "a", "g", "e", CR>>, <<CR>>, <<ESC>>,
       <<"/", "e", "x", "i", "t", CR>> >>

\* How many writes have been made when get_usage is at a step.
WritesDoneAt(site) ==
    CASE site \in {"find", "check_path", "openpty", "spawn", "close_slave",
                   "startup_wait", "write_usage"} -> 0
      [] site \in {"sleep_1", "write_enter"} -> 1
      [] site \in {"load_wait", "write_escape"} -> 2
      [] site \in {"sleep_2", "write_exit"} -> 3
      [] OTHER -> 4

\* C13: what has been written is always the start of the script; nothing
\* is written before the startup wait has ended, Escape is not written
\* before the usage-load wait has ended, termination is requested only
\* after the four writes, and a run that returns has written the whole
\* script, once, whatever the child wrote and whatever reads failed.
C13_FixedScript ==
    /\ Len(written) <= 4
    /\ written = [k \in 1..Len(written) |-> Script[k]]
    /\ pc \notin {"except", "exit"} => Len(written) = WritesDoneAt(pc)
    /\ (term_sent \/ kill_sent) => written = Script
    /\ pc \in {"return", "parse_usage", "parse_loop", "print"} => written = Script

\* get_usage has returned after the child wrote all it could, with the
\* whole script written.
C13_Witness ==
    /\ pc = "parse_usage"
    /\ produced = MaxChunks
    /\ output # << >>
    /\ written = Script

\* A polling wait has ended before its deadline: a read error ended it.
ReadErrorEnded ==
    \/ pc = "write_usage" /\ elapsed < 5
    \/ pc = "write_escape" /\ elapsed < 8

\* C14: a read error ends its wait with the bytes read so far kept and
\* nothing raised, and the step of the script that follows is carried out;
\* a terminate or kill call that finds the process gone raises nothing
\* either.
C14_FaultsAbsorbed ==
    /\ [][(pc \in WaitSites /\ pc' # pc) =>
            (pc' = AfterWait(pc) /\ output' = output /\ exc' = NoException)]_vars
    /\ [][(pc \in {"terminate", "wait", "kill"} /\ pc' # pc) =>
            (output' = output /\ exc' = NoException)]_vars
    /\ [][(ReadErrorEnded /\ pc' # pc) =>
            (pc' = AfterWrite(pc) /\ exc' = NoException)]_vars

\* C15: every wait step, long or short, reads what the child has written:
\* a read in a wait appends the oldest chunk waiting, and no wait step ends
\* its window with a chunk of the child left unread.
C15_EveryWaitPolls ==
    /\ [][(pc \in WaitSites /\ output' # output) =>
            (pending # << >> /\ output' = output \o Head(pending))]_vars
    /\ [][(pc \in SleepSites /\ pc' # pc) => pending = << >>]_vars

\* get_usage has returned, or is about to.
Returned == pc \in {"return", "parse_usage", "parse_loop", "print"}

\* C16: the child is signalled only after the script; SIGKILL is sent only
\* to a child that SIGTERM was sent to and that outlived the wait, and is
\* sent to every such child; when get_usage returns the child has exited.
C16_TeardownComplete ==
    /\ (term_sent \/ kill_sent) => Len(written) = 4
    /\ kill_sent => term_sent
    /\ (pc \in {"close_master", "return"} /\ proc = "running") => kill_sent
    /\ Returned => proc # "running"

\* C17: the follower descriptor is closed in the parent only once, after
\* the spawn and before anything is read or written; the controller is
\* closed only once, after termination of a running child was requested;
\* select, read and write are only issued on the open controller, with the
\* follower closed; and a run that returns has closed both.
C17_DescriptorDiscipline ==
    /\ [][slave' # slave =>
            \/ pc = "openpty" /\ slave = "none" /\ slave' = "open"
            \/ /\ pc = "close_slave" /\ slave = "open" /\ slave' = "closed"
               /\ proc # "none" /\ output = << >> /\ written = << >>]_vars
    /\ [][master' # master =>
            \/ pc = "openpty" /\ master = "none" /\ master' = "open"
            \/ /\ pc = "close_master" /\ master = "open" /\ master' = "closed"
               /\ (proc = "running" => term_sent)
               /\ pc' = "return"]_vars
    /\ [][(output' # output \/ written' # written) =>
            (master = "open" /\ slave = "closed")]_vars
    /\ [](pc \in WaitSites \cup WriteSites =>
            (master = "open" /\ slave = "closed"))
    /\ [](Returned => (master = "closed" /\ slave = "closed"))

\* get_usage is about to return what it read, both descriptors closed.
C17_Witness ==
    /\ pc = "return"
    /\ master = "closed"
    /\ slave = "closed"
    /\ output # << >>
    /\ Len(written) = 4

----------------------------------------------------------------------------
(* Claims about repeated headers and about the output buffer *)

\* The greatest element of a non-empty set of numbers.
Greatest(S) == CHOOSE x \in S : \A y \in S : y <= x

\* The lines the loop has been through.
Seen == IF pc = "print" THEN 1..Len(lines) ELSE 1..(i - 1)

\* The header lines gone through whose window has a match, per field.
SessionPercentLines == {k \in Seen : HasSession(k) /\ FirstPercent(k) # NoMatch}
SessionResetLines == {k \in Seen : HasSession(k) /\ FirstClock(k) # NoMatch}
WeeklyPercentLines ==
    {k \in Seen : HasWeek(k) /\ HasAllModels(k) /\ FirstPercent(k) # NoMatch}
WeeklyResetLines ==
    {k \in Seen : HasWeek(k) /\ HasAllModels(k) /\ FirstDate(k) # NoMatch}
SonnetPercentLines == {k \in Seen : HasSonnet(k) /\ FirstPercent(k) # NoMatch}

\* C18: after the loop has gone through some lines, and when it returns,
\* each field holds what was extracted for the last header line gone
\* through whose window has a match for it, or its default when there is no
\* such line: header lines with no match in their window change nothing.
C18_LastOccurrenceWins ==
    Cleaned =>
        /\ result.session_percent =
               IF SessionPercentLines = {} THEN 0
               ELSE ToInt(FirstPercent(Greatest(SessionPercentLines)))
        /\ result.session_reset =
               IF SessionResetLines = {} THEN << >>
               ELSE Strip(FirstClock(Greatest(SessionResetLines)))
        /\ result.weekly_percent =
               IF WeeklyPercentLines = {} THEN 0
               ELSE ToInt(FirstPercent(Greatest(WeeklyPercentLines)))
        /\ result.weekly_reset =
               IF WeeklyResetLines = {} THEN << >>
               ELSE Strip(AfterResetToken(FirstDate(Greatest(WeeklyResetLines))))
        /\ result.sonnet_percent =
               IF SonnetPercentLines = {} THEN 0
               ELSE ToInt(FirstPercent(Greatest(SonnetPercentLines)))

\* parse_usage has returned, for a screen drawn three times, the percentage
\* of the second drawing and the reset text of the first.
C18_Witness ==
    /\ pc = "print"
    /\ text = Redrawn
    /\ result.session_percent = 9
    /\ result.session_reset =
           <<"3", ":", "0", "0", "p", "m", " ", "(", "A", "m", "e", "r", "i",
             "c", "a", "/", "N", "Y">>

\* C19: the buffer is empty when the first wait starts; it changes only by
\* a read in one of the two polling waits, which puts the chunk read at its
\* end; a wait that ends, a write, a sleep and the teardown leave it as it
\* is; and the text returned is the permissive decoding of the buffer.
C19_BufferGrows ==
    /\ [](pc \in {"find", "check_path", "openpty", "spawn", "close_slave"} =>
            output = << >>)
    /\ [][pc = "close_slave" => output' = << >>]_vars
    /\ [][output' # output =>
            /\ pc \in WaitSites
            /\ pc' = pc
            /\ pending # << >>
            /\ output' = output \o Head(pending)]_vars
    /\ [][(pc \notin WaitSites \/ pc' # pc) => output' = output]_vars
    /\ [](pc = "parse_usage" => text = Decode(output))

\* get_usage has returned the decoding of two chunks in the order read:
\* the bytes of a character cut off at the end of the second are dropped.
C19_Witness ==
    /\ pc = "parse_usage"
    /\ output = ChunkHead \o ChunkMiddle
    /\ text = <<"C", "u", "r", "r", "e", "n", "t", " ", "s", "e", "s", "s",
                "i", "o", "n", NL, " ", "4", "5", "%", NL>>

=============================================================================
